---- MODULE Spec2Model ----
(***************************************************************************)
(* Verification model of the Janet core utilities: the open-addressed      *)
(* dictionary engine, the capacity function, the abstract type registry,   *)
(* the panic mechanism and the native argument getters.                    *)
(***************************************************************************)
EXTENDS Integers, Sequences, FiniteSets, TLC

VARIABLES
    \* ---- dictionary engine ----
    cap,        \* capacity of the backing array
    buckets,    \* the backing array: [0..cap-1 -> [key, value]]
    hashOf,     \* janet_hash restricted to the keys in use
    shadow,     \* history: the value most recently put for each key (nil if absent)
    last,       \* the last dictionary call and its result: [op, key, res, val]
    it_state,   \* iteration with janet_dictionary_next: "idle", "running", "done"
    it_kv,      \* the entry last returned by janet_dictionary_next (NULL at start)
    it_out,     \* the entries produced so far, in order
    it_steps,   \* slots examined by the iteration so far
    \* ---- capacity function ----
    tl_n,       \* the argument of janet_tablen
    tl_called,  \* whether janet_tablen has been applied to tl_n
    tl_ret,     \* its result
    \* ---- panic mechanism ----
    janet_vm_return_reg,  \* NULL, or the address of the slot of the active continuation
    return_slot,          \* the content of that slot
    control,    \* "normal", "handler" (after the longjmp) or "exited" (after exit(1))
    exit_status,          \* NULL while the process runs, then the argument of exit
    \* ---- native calls: registry and argument getters ----
    call,       \* the native call in progress or just finished, with its outcome
    janet_vm_registry,    \* the registry table: key -> value (nil if unbound)
    heap,       \* the abstract objects allocated so far: id -> [type, at]
    firstReg,   \* history: per name, the descriptor of the first successful registration
    rejected    \* history: the descriptors whose registration panicked

dictVars == <<cap, buckets, hashOf, shadow, last,
              it_state, it_kv, it_out, it_steps>>

capVars == <<tl_n, tl_called, tl_ret>>
panicVars == <<janet_vm_return_reg, return_slot, control, exit_status>>
regVars == <<janet_vm_registry, heap, firstReg, rejected>>

vars == <<dictVars, capVars, panicVars, call, regVars>>
notDictVars == <<capVars, panicVars, call, regVars>>
notCapVars == <<dictVars, panicVars, call, regVars>>

----------------------------------------------------------------------------
\* Bounds of the model
MaxKey == 3
MaxVal == 2
MaxHash == 1
MaxCap == 4
MaxSmallN == 40
MaxDesc == 4
MaxName == 2
MaxCFun == 1
MaxAlloc == 4
MaxLen == 2
MaxArgc == 3

----------------------------------------------------------------------------
\* Janet values: a tagged union, the type tag and a payload
Janet(t, x) == [type |-> t, v |-> x]
janet_wrap_nil == Janet("nil", 0)
janet_wrap_false == Janet("boolean", 0)
janet_wrap_number(x) == Janet("number", x)
janet_checktype(x, t) == x.type = t
janet_equals(x, y) == x = y

NULL == -1
\* A pointer outside the backing array (the result of an out-of-bounds read)
OOB == -2

RECURSIVE Pow2(_)
Pow2(k) == IF k = 0 THEN 1 ELSE 2 * Pow2(k - 1)

\* Two's complement bitwise operations on signed integers
RECURSIVE BitAnd(_, _)
BitAnd(a, b) ==
    IF a = 0 \/ b = 0 THEN 0
    ELSE IF a = -1 THEN b
    ELSE IF b = -1 THEN a
    ELSE (a % 2) * (b % 2) + 2 * BitAnd(a \div 2, b \div 2)

RECURSIVE BitOr(_, _)
BitOr(a, b) ==
    IF a = 0 THEN b
    ELSE IF b = 0 THEN a
    ELSE IF a = -1 \/ b = -1 THEN -1
    ELSE (IF a % 2 = 1 \/ b % 2 = 1 THEN 1 ELSE 0) + 2 * BitOr(a \div 2, b \div 2)

\* Arithmetic right shift
ShiftRight(a, k) == a \div Pow2(k)

----------------------------------------------------------------------------
\* Dictionary engine

Keys == {janet_wrap_number(i) : i \in 1..MaxKey}
Values == {janet_wrap_number(i) : i \in 1..MaxVal}
HashVals == (-1)..MaxHash
Caps == {0} \cup {c \in 1..MaxCap : \E k \in 0..MaxCap : c = Pow2(k)}

\* The hash of each key. Keys are only ever compared for equality, so every
\* assignment of hashes is a renaming of one that does not decrease along
\* the keys.
HashAssignments ==
    {h \in [Keys -> HashVals] :
        \A i \in 1..(MaxKey - 1) :
            h[janet_wrap_number(i)] <= h[janet_wrap_number(i + 1)]}

EmptyKV == [key |-> janet_wrap_nil, value |-> janet_wrap_nil]

janet_hash(key) == hashOf[key]
janet_maphash(c, hash) == BitAnd(hash, c - 1)

IsEmpty(kv) == janet_checktype(kv.key, "nil") /\ janet_checktype(kv.value, "nil")
IsTombstone(kv) == janet_checktype(kv.key, "nil") /\ ~janet_checktype(kv.value, "nil")
IsOccupied(kv) == ~janet_checktype(kv.key, "nil")

\* One probe loop of janet_dict_find: slots i..stop-1, carrying first_bucket.
RECURSIVE dict_scan(_, _, _, _, _)
dict_scan(b, key, i, stop, first_bucket) ==
    IF ~(i < stop) THEN [done |-> FALSE, res |-> NULL, first |-> first_bucket]
    ELSE IF i \notin DOMAIN b THEN [done |-> TRUE, res |-> OOB, first |-> first_bucket]
    ELSE IF janet_checktype(b[i].key, "nil") THEN
        IF janet_checktype(b[i].value, "nil")
        THEN [done |-> TRUE, res |-> i, first |-> first_bucket]
        ELSE dict_scan(b, key, i + 1, stop,
                       IF first_bucket = NULL THEN i ELSE first_bucket)
    ELSE IF janet_equals(b[i].key, key)
        THEN [done |-> TRUE, res |-> i, first |-> first_bucket]
        ELSE dict_scan(b, key, i + 1, stop, first_bucket)

\* A probe loop that treats a tombstone like an empty entry
RECURSIVE dict_scan_stop_at_tombstone(_, _, _, _, _)
dict_scan_stop_at_tombstone(b, key, i, stop, first_bucket) ==
    IF ~(i < stop) THEN [done |-> FALSE, res |-> NULL, first |-> first_bucket]
    ELSE IF i \notin DOMAIN b THEN [done |-> TRUE, res |-> OOB, first |-> first_bucket]
    ELSE IF janet_checktype(b[i].key, "nil")
        THEN [done |-> TRUE, res |-> i, first |-> first_bucket]
    ELSE IF janet_equals(b[i].key, key)
        THEN [done |-> TRUE, res |-> i, first |-> first_bucket]
        ELSE dict_scan_stop_at_tombstone(b, key, i + 1, stop, first_bucket)

janet_dict_find_stop_at_tombstone(b, c, key) ==
    LET index == janet_maphash(c, janet_hash(key))
        hi == dict_scan_stop_at_tombstone(b, key, index, c, NULL)
    IN  IF hi.done THEN hi.res
        ELSE LET lo == dict_scan_stop_at_tombstone(b, key, 0, index, hi.first)
             IN  IF lo.done THEN lo.res ELSE lo.first

janet_dict_find(b, c, key) ==
    LET index == janet_maphash(c, janet_hash(key))
        hi == dict_scan(b, key, index, c, NULL)
    IN  IF hi.done THEN hi.res
        ELSE LET lo == dict_scan(b, key, 0, index, hi.first)
             IN  IF lo.done THEN lo.res ELSE lo.first

\* The values janet_dictionary_get can return; an out-of-bounds read makes
\* the result arbitrary.
janet_dictionary_get(b, c, key) ==
    LET kv == janet_dict_find(b, c, key)
    IN  IF kv = OOB THEN Values \cup {janet_wrap_nil}
        ELSE IF kv # NULL /\ ~janet_checktype(b[kv].key, "nil")
             THEN {b[kv].value}
             ELSE {janet_wrap_nil}

\* janet_dictionary_next with a test of the value instead of the key
RECURSIVE next_scan_value(_, _, _)
next_scan_value(b, c, kv) ==
    IF ~(kv < c) THEN NULL
    ELSE IF ~janet_checktype(b[kv].value, "nil") THEN kv
    ELSE next_scan_value(b, c, kv + 1)

janet_dictionary_next_by_value(b, c, kv) ==
    next_scan_value(b, c, IF kv = NULL THEN 0 ELSE kv + 1)

RECURSIVE next_scan(_, _, _)
next_scan(b, c, kv) ==
    IF ~(kv < c) THEN NULL
    ELSE IF ~janet_checktype(b[kv].key, "nil") THEN kv
    ELSE next_scan(b, c, kv + 1)

janet_dictionary_next(b, c, kv) ==
    next_scan(b, c, IF kv = NULL THEN 0 ELSE kv + 1)

ResetIter ==
    /\ it_state' = "idle"
    /\ it_kv' = NULL
    /\ it_out' = <<>>
    /\ it_steps' = 0

NoCall == [op |-> "none"]

NoOp == [op |-> "none", key |-> janet_wrap_nil, res |-> NULL, val |-> janet_wrap_nil]

InitDict ==
    /\ cap \in Caps
    /\ buckets = [i \in 0..(cap - 1) |-> EmptyKV]
    /\ hashOf \in HashAssignments
    /\ shadow = [k \in Keys |-> janet_wrap_nil]
    /\ last = NoOp
    /\ it_state = "idle"
    /\ it_kv = NULL
    /\ it_out = <<>>
    /\ it_steps = 0

\* The caller does one thing at a time: it makes a call when the result of
\* the last one has been taken and no iteration is under way.
DictIdle == last.op = "none" /\ it_state = "idle"

\* janet_dict_find(buckets, cap, key)
Find(key) ==
    /\ DictIdle
    /\ last' = [op |-> "find", key |-> key,
                res |-> janet_dict_find(buckets, cap, key), val |-> janet_wrap_nil]
    /\ UNCHANGED <<cap, buckets, hashOf, shadow, it_state, it_kv, it_out, it_steps,
                   notDictVars>>

\* janet_dictionary_get(buckets, cap, key)
Get(key) ==
    /\ DictIdle
    /\ \E val \in janet_dictionary_get(buckets, cap, key) :
            last' = [op |-> "get", key |-> key, res |-> NULL, val |-> val]
    /\ UNCHANGED <<cap, buckets, hashOf, shadow, it_state, it_kv, it_out, it_steps,
                   notDictVars>>

\* The caller has taken the result of the last find or get
TakeResult ==
    /\ last.op # "none"
    /\ last' = NoOp
    /\ UNCHANGED <<cap, buckets, hashOf, shadow, it_state, it_kv, it_out, it_steps,
                   notDictVars>>

\* Insert into a mutable container: store at the slot find returns.
Put(key, value) ==
    LET kv == janet_dict_find(buckets, cap, key)
    IN  /\ DictIdle
        /\ kv \in DOMAIN buckets
        /\ buckets' = [buckets EXCEPT ![kv] = [key |-> key, value |-> value]]
        /\ shadow' = [shadow EXCEPT ![key] = value]
        /\ UNCHANGED <<cap, hashOf, last, it_state, it_kv, it_out, it_steps,
                       notDictVars>>

\* Delete from a mutable container: the entry becomes a tombstone.
Remove(key) ==
    LET kv == janet_dict_find(buckets, cap, key)
    IN  /\ DictIdle
        /\ kv \in DOMAIN buckets
        /\ IsOccupied(buckets[kv])
        /\ buckets' = [buckets EXCEPT
                          ![kv] = [key |-> janet_wrap_nil, value |-> janet_wrap_false]]
        /\ shadow' = [shadow EXCEPT ![key] = janet_wrap_nil]
        /\ UNCHANGED <<cap, hashOf, last, it_state, it_kv, it_out, it_steps,
                       notDictVars>>

\* One call kv = janet_dictionary_next(buckets, cap, kv) of an iteration
IterNext ==
    /\ last.op = "none"
    /\ it_state \in {"idle", "running"}
    /\ LET from == IF it_kv = NULL THEN 0 ELSE it_kv + 1
           kv == janet_dictionary_next(buckets, cap, it_kv)
       IN  IF kv = NULL
           THEN /\ it_state' = "done"
                /\ it_steps' = it_steps + (IF from < cap THEN cap - from ELSE 0)
                /\ UNCHANGED <<it_kv, it_out>>
           ELSE /\ it_state' = "running"
                /\ it_kv' = kv
                /\ it_out' = Append(it_out, kv)
                /\ it_steps' = it_steps + (kv - from + 1)
    /\ UNCHANGED <<cap, buckets, hashOf, shadow, last, notDictVars>>

\* Start the iteration again with kv = NULL
IterRestart ==
    /\ it_state # "idle"
    /\ ResetIter
    /\ UNCHANGED <<cap, buckets, hashOf, shadow, last, notDictVars>>

NextDict ==
    \/ \E key \in Keys : Find(key)
    \/ \E key \in Keys : Get(key)
    \/ \E key \in Keys, value \in Values : Put(key, value)
    \/ \E key \in Keys : Remove(key)
    \/ TakeResult
    \/ IterNext
    \/ IterRestart

----------------------------------------------------------------------------
\* Capacity function

\* janet_tablen without overflow: its argument stays below 2^30
TablenLimit == Pow2(30)

janet_tablen(n) ==
    LET n1 == BitOr(n, ShiftRight(n, 1))
        n2 == BitOr(n1, ShiftRight(n1, 2))
        n3 == BitOr(n2, ShiftRight(n2, 4))
        n4 == BitOr(n3, ShiftRight(n3, 8))
        n5 == BitOr(n4, ShiftRight(n4, 16))
    IN  n5 + 1

\* Arguments of janet_tablen: the small ones and those around each power of two
TablenInputs ==
    (0..MaxSmallN) \cup
    {x \in UNION {{Pow2(k) - 1, Pow2(k), Pow2(k) + 1} : k \in 1..29} : x < TablenLimit}

InitCap ==
    /\ tl_n \in TablenInputs
    /\ tl_called = FALSE
    /\ tl_ret = 0

\* tl_ret = janet_tablen(tl_n)
Tablen ==
    /\ ~tl_called
    /\ tl_ret' = janet_tablen(tl_n)
    /\ tl_called' = TRUE
    /\ UNCHANGED <<tl_n, notCapVars>>

----------------------------------------------------------------------------
\* Panic mechanism

\* The address of the slot that receives a propagated value
ReturnSlotAddr == 1

janet_wrap_string(x) == Janet("string", x)

\* janet_panicv without the store through janet_vm_return_reg
janet_panicv_drop_message(message) ==
    IF janet_vm_return_reg # NULL
    THEN /\ control' = "handler"
         /\ UNCHANGED <<janet_vm_return_reg, return_slot, exit_status>>
    ELSE /\ control' = "exited"
         /\ exit_status' = 1
         /\ UNCHANGED <<janet_vm_return_reg, return_slot>>

\* janet_panicv: store the message and jump to the continuation, or exit(1)
janet_panicv(message) ==
    IF janet_vm_return_reg # NULL
    THEN /\ return_slot' = message
         /\ control' = "handler"
         /\ UNCHANGED <<janet_vm_return_reg, exit_status>>
    ELSE /\ control' = "exited"
         /\ exit_status' = 1
         /\ UNCHANGED <<janet_vm_return_reg, return_slot>>

janet_panics(message) == janet_panicv(janet_wrap_string(message))

\* janet_panicf: the formatted message is the format with its arguments
janet_panicf(format, args) == janet_panics(<<format>> \o args)

janet_panic(message) == janet_panicv(janet_wrap_string(<<message>>))

InitPanic ==
    /\ janet_vm_return_reg \in {NULL, ReturnSlotAddr}
    /\ return_slot = janet_wrap_nil
    /\ control = "normal"
    /\ exit_status = NULL

\* The code at the continuation takes the value out of the slot and goes on;
\* the call that panicked is abandoned
HandlerResume ==
    /\ control = "handler"
    /\ control' = "normal"
    /\ return_slot' = janet_wrap_nil
    /\ call' = NoCall
    /\ UNCHANGED <<janet_vm_return_reg, exit_status, regVars, dictVars, capVars>>

----------------------------------------------------------------------------
\* Abstract type registry

\* The address of the private marker type type_wrap
TypeWrap == 0

Descs == 1..MaxDesc
Names == 1..MaxName
CFuns == 1..MaxCFun

\* at->name of descriptor at: several descriptors share one name
at_name(at) == ((at - 1) % MaxName) + 1

janet_csymbolv(name) == Janet("symbol", name)
janet_wrap_cfunction(cfun) == Janet("cfunction", cfun)
janet_wrap_abstract(x) == Janet("abstract", x)
janet_unwrap_abstract(x) == x.v
janet_abstract_type(x) == heap[x].type

janet_table_get(t, key) == IF key \in DOMAIN t THEN t[key] ELSE janet_wrap_nil
janet_table_put(t, key, value) ==
    [k \in DOMAIN t \cup {key} |-> IF k = key THEN value ELSE t[k]]

RegistryKeys ==
    {janet_csymbolv(nm) : nm \in Names} \cup {janet_wrap_cfunction(f) : f \in CFuns}

\* A registration test that lets a name be bound again
register_conflict_never(old, at) == FALSE

\* A registration test that only rejects a descriptor other than the bound one
register_conflict_distinct(old, at) ==
    /\ ~janet_checktype(old, "nil")
    /\ heap[janet_unwrap_abstract(old)].at # at

\* The test of janet_register_abstract_type: the name is bound
register_conflict(old, at) == ~janet_checktype(old, "nil")

\* The descriptor a registry value holds (NULL if the value is nil)
BoundDescriptor(x) ==
    IF janet_checktype(x, "abstract") THEN heap[janet_unwrap_abstract(x)].at ELSE NULL

\* janet_get_abstract_type(key) on registry t
janet_get_abstract_type(t, key) ==
    LET twrap == janet_table_get(t, key)
    IN  IF janet_checktype(twrap, "nil")
        THEN [panicked |-> FALSE, val |-> NULL]
        ELSE IF ~janet_checktype(twrap, "abstract")
                \/ janet_abstract_type(janet_unwrap_abstract(twrap)) # TypeWrap
        THEN [panicked |-> TRUE, val |-> NULL]
        ELSE [panicked |-> FALSE, val |-> heap[janet_unwrap_abstract(twrap)].at]

InitReg ==
    /\ call = NoCall
    /\ janet_vm_registry = [k \in {} |-> janet_wrap_nil]
    /\ heap = <<>>
    /\ firstReg = [nm \in Names |-> NULL]
    /\ rejected = {}

\* janet_register(name, cfun)
Register(name, cfun) ==
    /\ control = "normal"
    /\ LET key == janet_wrap_cfunction(cfun)
           value == janet_csymbolv(name)
       IN  janet_vm_registry' = janet_table_put(janet_vm_registry, key, value)
    /\ call' = [op |-> "janet_register", name |-> name, cfun |-> cfun]
    /\ UNCHANGED <<heap, firstReg, rejected, panicVars, dictVars, capVars>>

\* janet_register_abstract_type(at)
RegisterAbstractType(at) ==
    /\ control = "normal"
    /\ Len(heap) < MaxAlloc
    /\ LET abstract == Len(heap) + 1
           sym == janet_csymbolv(at_name(at))
           old == janet_table_get(janet_vm_registry, sym)
       IN  /\ heap' = Append(heap, [type |-> TypeWrap, at |-> at])
           /\ IF register_conflict(old, at)
              THEN /\ janet_panicf("cannot register abstract type %s, a type with the same name exists",
                                   <<at_name(at)>>)
                   /\ rejected' = rejected \cup {at}
                   /\ call' = [op |-> "register", at |-> at, prev |-> BoundDescriptor(old),
                               abstract |-> abstract, panicked |-> TRUE]
                   /\ UNCHANGED <<janet_vm_registry, firstReg>>
              ELSE /\ janet_vm_registry' =
                          janet_table_put(janet_vm_registry, sym, janet_wrap_abstract(abstract))
                   /\ firstReg' = IF firstReg[at_name(at)] = NULL
                                  THEN [firstReg EXCEPT ![at_name(at)] = at]
                                  ELSE firstReg
                   /\ call' = [op |-> "register", at |-> at, prev |-> BoundDescriptor(old),
                               abstract |-> abstract, panicked |-> FALSE]
                   /\ UNCHANGED <<rejected, panicVars>>
    /\ UNCHANGED <<dictVars, capVars>>

\* janet_get_abstract_type(key)
GetAbstractType(key) ==
    /\ control = "normal"
    /\ LET r == janet_get_abstract_type(janet_vm_registry, key)
       IN  /\ call' = [op |-> "lookup", key |-> key, panicked |-> r.panicked, val |-> r.val]
           /\ IF r.panicked
              THEN janet_panic("expected abstract type")
              ELSE UNCHANGED panicVars
    /\ UNCHANGED <<regVars, dictVars, capVars>>

NextReg ==
    \/ \E name \in Names, cfun \in CFuns : Register(name, cfun)
    \/ \E at \in Descs : RegisterAbstractType(at)
    \/ \E key \in RegistryKeys : GetAbstractType(key)
    \/ HandlerResume

----------------------------------------------------------------------------
\* Argument getters of native functions

\* Numbers are doubles; the payload of a number counts halves, so that an
\* integer i is the payload 2 * i and an odd payload is not an integer.
janet_wrap_integer(i) == Janet("number", 2 * i)
janet_unwrap_integer(x) == x.v \div 2
janet_checkint(x) == janet_checktype(x, "number") /\ x.v % 2 = 0

\* The kinds DEFINE_GETTER is instantiated for
GetterKinds ==
    {"number", "array", "tuple", "table", "struct", "string", "keyword", "symbol",
     "buffer", "fiber", "function", "cfunction", "boolean", "pointer"}

\* Outcome of a call: a returned value, or a panic with its message
Ret(x) == [panicked |-> FALSE, val |-> x, msg |-> <<>>]
PanicF(format, args) == [panicked |-> TRUE, val |-> NULL, msg |-> <<format>> \o args]

\* argv[n] of an argument list held as a sequence
Arg(argv, n) == argv[n + 1]

\* What a read of argv[n] can yield: the argument, or, past the end of the
\* argument list, whatever the memory there holds
Garbage == {janet_wrap_nil, janet_wrap_integer(MaxLen), Janet("string", 1)}
ReadArg(argv, n) == IF n < Len(argv) THEN {Arg(argv, n)} ELSE Garbage

janet_panic_type(x, n, expected) ==
    PanicF("bad slot #%d, expected %T, got %v", <<n, expected, x>>)

\* janet_arity without the tests min >= 0 and max >= 0
janet_arity_no_sign_test(arity, min, max) ==
    IF arity < min
    THEN PanicF("arity mismatch, expected at least %d, got %d", <<min, arity>>)
    ELSE IF arity > max
    THEN PanicF("arity mismatch, expected at most %d, got %d", <<max, arity>>)
    ELSE Ret(0)

\* janet_arity(arity, min, max)
janet_arity(arity, min, max) ==
    IF min >= 0 /\ arity < min
    THEN PanicF("arity mismatch, expected at least %d, got %d", <<min, arity>>)
    ELSE IF max >= 0 /\ arity > max
    THEN PanicF("arity mismatch, expected at most %d, got %d", <<max, arity>>)
    ELSE Ret(0)

\* janet_get##name on the value x read from argv[n]
get_value(kind, x, n) ==
    IF ~janet_checktype(x, kind)
    THEN janet_panic_type(x, n, kind)
    ELSE Ret(x.v)

\* janet_get##name(argv, n)
janet_get(kind, argv, n) == get_value(kind, Arg(argv, n), n)

\* janet_opt##name(argv, argc, n, dflt): the outcomes it can have, each with
\* whether argv was read at an index >= argc
janet_opt(kind, argv, argc, n, dflt) ==
    IF argc >= n THEN {[out |-> Ret(dflt), oob |-> FALSE]}
    ELSE {[out |-> IF janet_checktype(x, "nil") THEN Ret(dflt) ELSE get_value(kind, x, n),
           oob |-> ~(n < argc)] : x \in ReadArg(argv, n)}

\* janet_getinteger on the value x read from argv[n]
getinteger_value(x, n) ==
    IF ~janet_checkint(x)
    THEN PanicF("bad slot #%d, expected integer, got %v", <<n, x>>)
    ELSE Ret(janet_unwrap_integer(x))

\* janet_getinteger(argv, n)
janet_getinteger(argv, n) == getinteger_value(Arg(argv, n), n)

\* janet_optinteger(argv, argc, n, dflt)
janet_optinteger(argv, argc, n, dflt) ==
    IF argc <= n THEN {[out |-> Ret(dflt), oob |-> FALSE]}
    ELSE {[out |-> IF janet_checktype(x, "nil") THEN Ret(dflt) ELSE getinteger_value(x, n),
           oob |-> ~(n < argc)] : x \in ReadArg(argv, n)}

\* janet_gethalfrange that adds length instead of length + 1
janet_gethalfrange_add_length(argv, n, length, which) ==
    LET r == janet_getinteger(argv, n)
        raw == IF r.val < 0 THEN r.val + length ELSE r.val
    IN  IF r.panicked THEN r
        ELSE IF raw < 0 \/ raw > length
        THEN PanicF("%s index %d out of range [0,%d]", <<which, raw, length>>)
        ELSE Ret(raw)

\* janet_gethalfrange(argv, n, length, which)
janet_gethalfrange(argv, n, length, which) ==
    LET r == janet_getinteger(argv, n)
        raw == IF r.val < 0 THEN r.val + length + 1 ELSE r.val
    IN  IF r.panicked THEN r
        ELSE IF raw < 0 \/ raw > length
        THEN PanicF("%s index %d out of range [0,%d]", <<which, raw, length>>)
        ELSE Ret(raw)

\* janet_getargindex(argv, n, length, which)
janet_getargindex(argv, n, length, which) ==
    LET r == janet_getinteger(argv, n)
        raw == IF r.val < 0 THEN r.val + length ELSE r.val
    IN  IF r.panicked THEN r
        ELSE IF raw < 0 \/ raw > length
        THEN PanicF("%s index %d out of range [0,%d)", <<which, raw, length>>)
        ELSE Ret(raw)

\* janet_length of a sequence value: the payload of a tuple is its length
janet_length(x) == x.v

\* janet_getslice(argc, argv)
janet_getslice(argc, argv) ==
    LET a == janet_arity(argc, 1, 3)
        length == janet_length(Arg(argv, 0))
        start == IF janet_checktype(Arg(argv, 1), "nil")
                 THEN Ret(0)
                 ELSE janet_gethalfrange(argv, 1, length, "start")
        end == IF janet_checktype(Arg(argv, 2), "nil")
               THEN Ret(length)
               ELSE janet_gethalfrange(argv, 2, length, "end")
    IN  IF a.panicked THEN a
        ELSE IF argc = 1 THEN Ret([start |-> 0, end |-> length])
        ELSE IF argc = 2 THEN
            IF start.panicked THEN start
            ELSE Ret([start |-> start.val, end |-> length])
        ELSE IF start.panicked THEN start
        ELSE IF end.panicked THEN end
        ELSE Ret([start |-> start.val,
                  end |-> IF end.val < start.val THEN start.val ELSE end.val])

\* Argument values and argument lists of the calls
GetterArgs == {janet_wrap_nil} \cup {Janet(kind, MaxLen) : kind \in GetterKinds}
IntArgs ==
    {janet_wrap_nil, Janet("number", 1), Janet("string", 1)} \cup
    {janet_wrap_integer(i) : i \in (-(MaxLen + 2))..(MaxLen + 2)}
Lengths == 0..MaxLen
Sequences == {Janet("tuple", len) : len \in Lengths}

ArgLists(S, maxlen) == UNION {[1..len -> S] : len \in 0..maxlen}

\* The outcome out of the call rec: it is recorded, and a panic goes to janet_panicv
Finish(rec, out, oob) ==
    /\ call' = [op |-> rec.op, in |-> rec, panicked |-> out.panicked,
                val |-> out.val, oob |-> oob]
    /\ IF out.panicked THEN janet_panics(out.msg) ELSE UNCHANGED panicVars
    /\ UNCHANGED <<regVars, dictVars, capVars>>

Idle == control = "normal" /\ call.op = "none"

\* janet_get##name(argv, n), called with n < argc
CallGet ==
    /\ Idle
    /\ \E kind \in GetterKinds, argv \in ArgLists(GetterArgs, 2), n \in 0..MaxArgc :
          /\ n < Len(argv)
          /\ Finish([op |-> "get", kind |-> kind, argv |-> argv, n |-> n],
                    janet_get(kind, argv, n), FALSE)

\* janet_opt##name(argv, argc, n, dflt)
CallOpt ==
    /\ Idle
    /\ \E kind \in GetterKinds, argv \in ArgLists(GetterArgs, 2), n \in 0..MaxArgc :
       \E r \in janet_opt(kind, argv, Len(argv), n, MaxLen + 1) :
          Finish([op |-> "opt", kind |-> kind, argv |-> argv, n |-> n,
                  dflt |-> MaxLen + 1],
                 r.out, r.oob)

\* janet_optinteger(argv, argc, n, dflt)
CallOptInteger ==
    /\ Idle
    /\ \E argv \in ArgLists(IntArgs, 2), n \in 0..MaxArgc :
       \E r \in janet_optinteger(argv, Len(argv), n, MaxLen + 1) :
          Finish([op |-> "optinteger", argv |-> argv, n |-> n, dflt |-> MaxLen + 1],
                 r.out, r.oob)

\* janet_gethalfrange(argv, n, length, which), called with n < argc
CallGetHalfRange ==
    /\ Idle
    /\ \E argv \in ArgLists(IntArgs, 2), n \in 0..MaxArgc, length \in Lengths :
          /\ n < Len(argv)
          /\ Finish([op |-> "gethalfrange", argv |-> argv, n |-> n, length |-> length],
                    janet_gethalfrange(argv, n, length, "start"), FALSE)

\* janet_getargindex(argv, n, length, which), called with n < argc
CallGetArgIndex ==
    /\ Idle
    /\ \E argv \in ArgLists(IntArgs, 2), n \in 0..MaxArgc, length \in Lengths :
          /\ n < Len(argv)
          /\ Finish([op |-> "getargindex", argv |-> argv, n |-> n, length |-> length],
                    janet_getargindex(argv, n, length, "index"), FALSE)

\* janet_getslice(argc, argv): argv[0] is the sequence, then the bounds; the
\* slots of argv that a call with fewer arguments never reads hold nil here
CallGetSlice ==
    /\ Idle
    /\ \E seq \in Sequences, bounds \in ArgLists(IntArgs, MaxArgc) :
          LET argv == <<seq>> \o bounds
          IN  Finish([op |-> "getslice", argc |-> Len(argv), argv |-> argv],
                     janet_getslice(Len(argv), argv \o <<janet_wrap_nil, janet_wrap_nil>>),
                     FALSE)

\* The native function returns to its caller
NativeReturn ==
    /\ control = "normal"
    /\ call.op # "none"
    /\ call' = NoCall
    /\ UNCHANGED <<panicVars, regVars, dictVars, capVars>>

NextArgs ==
    \/ CallGet
    \/ CallOpt
    \/ CallOptInteger
    \/ CallGetHalfRange
    \/ CallGetArgIndex
    \/ CallGetSlice
    \/ NativeReturn
    \/ HandlerResume

----------------------------------------------------------------------------
\* The panic functions, one step per function body

\* A call of one of the panic functions: op is the function the caller
\* called, in its arguments, pc the function whose body runs next ("returned"
\* when op has returned to its caller, "gone" when the call chain was
\* abandoned), fmt and args the arguments passed to janet_panicf, msg the
\* string passed to janet_panics and raised the value passed to janet_panicv.
Frame(op, in) ==
    [op |-> op, in |-> in, pc |-> op, fmt |-> "", args |-> <<>>, msg |-> <<>>,
     raised |-> janet_wrap_nil]

Enter(frame) ==
    /\ call' = frame
    /\ UNCHANGED <<panicVars, regVars, dictVars, capVars>>

\* The body of the function at pc runs and calls, or returns to, next
Goto(next) ==
    /\ call' = next
    /\ UNCHANGED <<panicVars, regVars, dictVars, capVars>>

\* A call of janet_panicf(format, args) made by the body at pc
ToPanicf(out) ==
    Goto([call EXCEPT !.pc = "janet_panicf", !.fmt = Head(out.msg),
                      !.args = Tail(out.msg)])

RaiseValues == {janet_wrap_nil, janet_wrap_integer(MaxLen), janet_wrap_string(<<"error">>)}
Formats == {"%d", "%v"}
Arities == 0..MaxArgc
ArityBounds == (-1)..MaxArgc

janet_panic_abstract(x, n, at) ==
    PanicF("bad slot #%d, expected %s, got %v", <<n, at_name(at), x>>)

janet_fixarity(arity, fix) ==
    IF arity # fix
    THEN PanicF("arity mismatch, expected %d, got %d", <<fix, arity>>)
    ELSE Ret(0)

\* The caller calls janet_panicv(value)
CallPanicv ==
    /\ Idle
    /\ \E v \in RaiseValues :
           Enter([Frame("janet_panicv", [value |-> v]) EXCEPT !.raised = v])

\* The caller calls janet_panics(message)
CallPanics ==
    /\ Idle
    /\ \E m \in Formats :
           Enter([Frame("janet_panics", [message |-> <<m>>]) EXCEPT !.msg = <<m>>])

\* The caller calls janet_panic(message)
CallPanic ==
    /\ Idle
    /\ \E m \in Formats : Enter(Frame("janet_panic", [message |-> m]))

\* The caller calls janet_panicf(format, ...)
CallPanicf ==
    /\ Idle
    /\ \E f \in Formats, a \in RaiseValues :
           Enter([Frame("janet_panicf", [format |-> f, args |-> <<a>>])
                     EXCEPT !.fmt = f, !.args = <<a>>])

\* The caller calls janet_panic_type(x, n, expected)
CallPanicType ==
    /\ Idle
    /\ \E x \in RaiseValues, n \in 0..MaxArgc, expected \in {"keyword", "number"} :
           Enter(Frame("janet_panic_type", [x |-> x, n |-> n, expected |-> expected]))

\* The caller calls janet_panic_abstract(x, n, at)
CallPanicAbstract ==
    /\ Idle
    /\ \E x \in RaiseValues, n \in 0..MaxArgc, at \in Descs :
           Enter(Frame("janet_panic_abstract", [x |-> x, n |-> n, at |-> at]))

\* The caller calls janet_fixarity(arity, fix)
CallFixArity ==
    /\ Idle
    /\ \E arity \in Arities, fix \in Arities :
           Enter(Frame("janet_fixarity", [arity |-> arity, fix |-> fix]))

\* The caller calls janet_arity(arity, min, max)
CallArity ==
    /\ Idle
    /\ \E arity \in Arities, min \in ArityBounds, max \in ArityBounds :
           Enter(Frame("janet_arity", [arity |-> arity, min |-> min, max |-> max]))

\* Body of janet_arity
StepArity ==
    /\ control = "normal" /\ call.op # "none" /\ call.pc = "janet_arity"
    /\ LET out == janet_arity(call.in.arity, call.in.min, call.in.max)
       IN  IF out.panicked THEN ToPanicf(out)
           ELSE Goto([call EXCEPT !.pc = "returned"])

\* Body of janet_fixarity
StepFixArity ==
    /\ control = "normal" /\ call.op # "none" /\ call.pc = "janet_fixarity"
    /\ LET out == janet_fixarity(call.in.arity, call.in.fix)
       IN  IF out.panicked THEN ToPanicf(out)
           ELSE Goto([call EXCEPT !.pc = "returned"])

\* Body of janet_panic_type
StepPanicType ==
    /\ control = "normal" /\ call.op # "none" /\ call.pc = "janet_panic_type"
    /\ ToPanicf(janet_panic_type(call.in.x, call.in.n, call.in.expected))

\* Body of janet_panic_abstract
StepPanicAbstract ==
    /\ control = "normal" /\ call.op # "none" /\ call.pc = "janet_panic_abstract"
    /\ ToPanicf(janet_panic_abstract(call.in.x, call.in.n, call.in.at))

\* Body of janet_panicf: format into a buffer, make a string, janet_panics(ret)
StepPanicf ==
    /\ control = "normal" /\ call.op # "none" /\ call.pc = "janet_panicf"
    /\ Goto([call EXCEPT !.pc = "janet_panics", !.msg = <<call.fmt>> \o call.args])

\* Body of janet_panic: janet_panicv(janet_cstringv(message))
StepPanic ==
    /\ control = "normal" /\ call.op # "none" /\ call.pc = "janet_panic"
    /\ Goto([call EXCEPT !.pc = "janet_panicv",
                         !.raised = janet_wrap_string(<<call.in.message>>)])

\* Body of janet_panics: janet_panicv(janet_wrap_string(message))
StepPanics ==
    /\ control = "normal" /\ call.op # "none" /\ call.pc = "janet_panics"
    /\ Goto([call EXCEPT !.pc = "janet_panicv", !.raised = janet_wrap_string(call.msg)])

\* Body of janet_panicv: neither longjmp nor exit returns
StepPanicv ==
    /\ control = "normal" /\ call.op # "none" /\ call.pc = "janet_panicv"
    /\ call' = [call EXCEPT !.pc = "gone"]
    /\ janet_panicv(call.raised)
    /\ UNCHANGED <<regVars, dictVars, capVars>>

\* The caller goes on after a call that returned
CallerResumes ==
    /\ control = "normal" /\ call.op # "none" /\ call.pc = "returned"
    /\ Goto(NoCall)

\* The steps of a call in progress
StepRaise ==
    \/ StepArity
    \/ StepFixArity
    \/ StepPanicType
    \/ StepPanicAbstract
    \/ StepPanicf
    \/ StepPanic
    \/ StepPanics
    \/ StepPanicv

NextPanic ==
    \/ CallPanicv
    \/ CallPanics
    \/ CallPanic
    \/ CallPanicf
    \/ CallPanicType
    \/ CallPanicAbstract
    \/ CallFixArity
    \/ CallArity
    \/ StepRaise
    \/ CallerResumes
    \/ HandlerResume

----------------------------------------------------------------------------
\* Method tables and flag keywords

MaxByte == 2
MaxStr == 3
MaxCName == 1
MaxMethods == 2
MaxKeyw == 2
MaxFlags == 3

\* The limit on the number of significant flag characters
FlagCap == 64

\* A Janet string is a sequence of bytes with a length; it can hold the byte 0
Bytes == 0..MaxByte
Strings == ArgLists(Bytes, MaxStr)

\* A C string is held as the sequence of its bytes before the terminator
CBytes == 1..MaxByte
CNames == ArgLists(CBytes, MaxCName)
strlen(s) == Len(s)

\* other[index] of a C string: its bytes, then the terminator; nothing is
\* known of the memory after the terminator
cstr_at(other, index) ==
    IF index < Len(other) THEN other[index + 1]
    ELSE IF index = Len(other) THEN 0
    ELSE OOB

\* the return statement of janet_cstrcmp
cstrcmp_return(other, index) == IF cstr_at(other, index) = 0 THEN 0 ELSE -1

\* the loop of janet_cstrcmp, from index on
RECURSIVE cstrcmp_loop(_, _, _)
cstrcmp_loop(str, other, index) ==
    IF index < Len(str)
    THEN LET c == str[index + 1]
             k == cstr_at(other, index)
         IN  IF c < k THEN -1
             ELSE IF c > k THEN 1
             ELSE IF k = 0 THEN cstrcmp_return(other, index)
             ELSE cstrcmp_loop(str, other, index + 1)
    ELSE cstrcmp_return(other, index)

\* janet_cstrcmp(str, other)
janet_cstrcmp(str, other) == cstrcmp_loop(str, other, 0)

\* the loop of janet_getmethod, from entry i on; the table ends at the
\* entry whose name is NULL, here the end of the sequence
RECURSIVE getmethod_scan(_, _, _)
getmethod_scan(method, methods, i) ==
    IF i > Len(methods) THEN janet_wrap_nil
    ELSE IF janet_cstrcmp(method, methods[i].name) = 0
         THEN janet_wrap_cfunction(methods[i].cfun)
         ELSE getmethod_scan(method, methods, i + 1)

\* janet_getmethod(method, methods)
janet_getmethod(method, methods) == Ret(getmethod_scan(method, methods, 1))

\* Method tables: the entry at position i binds the native function i
MethodTables ==
    UNION {{[i \in 1..len |-> [name |-> names[i], cfun |-> i]] :
               names \in [1..len -> CNames]} : len \in 0..MaxMethods}

\* the inner loop of janet_getflags: the first index below flen of the
\* character c in flags, from i on; NULL if there is none
RECURSIVE flag_index(_, _, _, _)
flag_index(flags, flen, c, i) ==
    IF i >= flen THEN NULL
    ELSE IF flags[i + 1] = c THEN i
    ELSE flag_index(flags, flen, c, i + 1)

\* the outer loop of janet_getflags, from the keyword character j on; the
\* 64-bit mask ret is held as the set of the indices of its bits that are set
RECURSIVE getflags_loop(_, _, _, _, _)
getflags_loop(keyw, flags, flen, j, ret) ==
    IF j >= Len(keyw) THEN Ret(ret)
    ELSE LET i == flag_index(flags, flen, keyw[j + 1], 0)
         IN  IF i = NULL
             THEN PanicF("unexpected flag %c, expected one of \"%s\"",
                         <<keyw[j + 1], flags>>)
             ELSE getflags_loop(keyw, flags, flen, j + 1, ret \cup {i})

\* janet_getflags without the limit on flen
janet_getflags_uncapped(argv, n, flags) ==
    LET keyw == janet_get("keyword", argv, n)
    IN  IF keyw.panicked THEN keyw
        ELSE getflags_loop(keyw.val, flags, strlen(flags), 0, {})

\* janet_getflags(argv, n, flags)
janet_getflags(argv, n, flags) ==
    LET keyw == janet_get("keyword", argv, n)
        flen == IF strlen(flags) > FlagCap THEN FlagCap ELSE strlen(flags)
    IN  IF keyw.panicked THEN keyw
        ELSE getflags_loop(keyw.val, flags, flen, 0, {})

\* Flag alphabets: the short ones, and two that reach the limit
Pad(n) == [i \in 1..n |-> 1]
Alphabets ==
    ArgLists(CBytes, MaxFlags) \cup
    {Pad(FlagCap - 1) \o <<MaxByte>>, Pad(FlagCap) \o <<MaxByte>>}

\* The arguments given where a flag keyword is expected
FlagArgs ==
    {Janet("keyword", k) : k \in ArgLists(Bytes, MaxKeyw)} \cup
    {janet_wrap_nil, Janet("string", <<1>>)}

\* janet_getmethod(method, methods)
CallGetMethod ==
    /\ Idle
    /\ \E method \in Strings, methods \in MethodTables :
          Finish([op |-> "getmethod", method |-> method, methods |-> methods],
                 janet_getmethod(method, methods), FALSE)

\* janet_getflags(argv, n, flags), called with n < argc
CallGetFlags ==
    /\ Idle
    /\ \E x \in FlagArgs, n \in 0..1, flags \in Alphabets :
          LET argv == [i \in 1..(n + 1) |-> IF i = n + 1 THEN x ELSE janet_wrap_nil]
          IN  Finish([op |-> "getflags", argv |-> argv, n |-> n, flags |-> flags],
                     janet_getflags(argv, n, flags), FALSE)

NextMethod ==
    \/ CallGetMethod
    \/ NativeReturn

NextFlags ==
    \/ CallGetFlags
    \/ NativeReturn
    \/ HandlerResume

----------------------------------------------------------------------------
\* Initial values of each component, and the specifications

ParkDict ==
    /\ cap = 0
    /\ buckets = [i \in 0..(cap - 1) |-> EmptyKV]
    /\ hashOf = [k \in Keys |-> 0]
    /\ shadow = [k \in Keys |-> janet_wrap_nil]
    /\ last = NoOp
    /\ it_state = "idle"
    /\ it_kv = NULL
    /\ it_out = <<>>
    /\ it_steps = 0

ParkCap ==
    /\ tl_n = 0
    /\ tl_called = FALSE
    /\ tl_ret = 0

ParkPanic ==
    /\ janet_vm_return_reg = NULL
    /\ return_slot = janet_wrap_nil
    /\ control = "normal"
    /\ exit_status = NULL

ParkCalls ==
    /\ call = NoCall
    /\ janet_vm_registry = [k \in {} |-> janet_wrap_nil]
    /\ heap = <<>>
    /\ firstReg = [nm \in {} |-> 0]
    /\ rejected = {}

InitDictSpec == InitDict /\ ParkCap /\ ParkPanic /\ ParkCalls

SpecDict == InitDictSpec /\ [][NextDict]_vars

NextCap == Tablen

InitCapSpec == InitCap /\ ParkDict /\ ParkPanic /\ ParkCalls

SpecCap == InitCapSpec /\ [][NextCap]_vars

----------------------------------------------------------------------------
\* Properties of the dictionary engine

SetMin(S) == CHOOSE x \in S : \A y \in S : x <= y

\* The slots in the order the probe visits them, starting at index
ProbeOrder(c, index) == [p \in 0..(c - 1) |-> (index + p) % c]

\* C1: when the probe scan of find reaches an empty entry before any occupied
\* entry matching the key, the result is the earliest tombstone seen on the
\* scan if there was one, and the empty entry only if no tombstone was seen.
C1_FindPrefersEarliestTombstone ==
    (last.op = "find" /\ cap >= 1) =>
        LET ord == ProbeOrder(cap, janet_maphash(cap, janet_hash(last.key)))
            stops == {p \in 0..(cap - 1) :
                         \/ IsEmpty(buckets[ord[p]])
                         \/ buckets[ord[p]].key = last.key}
        IN  (stops # {} /\ IsEmpty(buckets[ord[SetMin(stops)]])) =>
                LET p == SetMin(stops)
                    seen == {q \in 0..(p - 1) : IsTombstone(buckets[ord[q]])}
                IN  last.res = IF seen # {} THEN ord[SetMin(seen)] ELSE ord[p]

\* C2: get(k) returns the value most recently inserted for k when k is
\* present and nil when it is not, whatever inserts and deletes came before
\* (the backing array of a container that holds entries has capacity >= 1).
C2_GetReturnsLatestValue ==
    cap >= 1 =>
        /\ \A k \in Keys : janet_dictionary_get(buckets, cap, k) = {shadow[k]}
        /\ last.op = "get" => last.val = shadow[last.key]

\* A get of a present key whose probe starts on a tombstone returned its value.
C2_Witness ==
    /\ cap >= 2
    /\ last.op = "get"
    /\ last.val # janet_wrap_nil
    /\ last.val = shadow[last.key]
    /\ IsTombstone(buckets[janet_maphash(cap, janet_hash(last.key))])
    /\ \E k \in Keys : k # last.key /\ shadow[k] # janet_wrap_nil

Occupied == {i \in 0..(cap - 1) : IsOccupied(buckets[i])}

\* C3: iterating with next from NULL until it returns NULL produces exactly
\* the occupied entries, each once, in increasing storage index, never a
\* tombstone or an empty slot, and examines at most capacity slots.
C3_NextEnumeratesOccupied ==
    /\ \A p \in 1..Len(it_out) : it_out[p] \in Occupied
    /\ \A p, q \in 1..Len(it_out) : p < q => it_out[p] < it_out[q]
    /\ it_steps <= cap
    /\ Len(it_out) <= cap
    /\ it_state = "running" =>
          {it_out[p] : p \in 1..Len(it_out)} = {i \in Occupied : i <= it_kv}
    /\ it_state = "done" =>
          {it_out[p] : p \in 1..Len(it_out)} = Occupied

\* A finished iteration over an array that holds two entries, a tombstone
\* and an empty slot.
C3_Witness ==
    /\ it_state = "done"
    /\ Len(it_out) >= 2
    /\ \E i \in 0..(cap - 1) : IsTombstone(buckets[i])
    /\ \E i \in 0..(cap - 1) : IsEmpty(buckets[i])

----------------------------------------------------------------------------
\* Properties of the capacity function

RECURSIVE IsPow2(_)
IsPow2(x) == x = 1 \/ (x > 1 /\ x % 2 = 0 /\ IsPow2(x \div 2))

\* C4: for 0 < n < 2^30, capacity_for(n) is the smallest power of two >= n.
C4_TablenSmallestPowerOfTwoAtLeastN ==
    (tl_called /\ 0 < tl_n /\ tl_n < TablenLimit) =>
        /\ IsPow2(tl_ret)
        /\ tl_ret >= tl_n
        /\ \A k \in 0..30 : (Pow2(k) >= tl_n) => tl_ret <= Pow2(k)

\* C5: capacity_for(0) returns 0.
C5_TablenOfZeroIsZero ==
    (tl_called /\ tl_n = 0) => tl_ret = 0

InitArgsSpec == InitReg /\ InitPanic /\ ParkDict /\ ParkCap

SpecArgs == InitArgsSpec /\ [][NextArgs]_vars

InitRegSpec == InitReg /\ InitPanic /\ ParkDict /\ ParkCap

SpecReg == InitRegSpec /\ [][NextReg]_vars

InitPanicSpec == InitReg /\ InitPanic /\ ParkDict /\ ParkCap

SpecPanic == InitPanicSpec /\ [][NextPanic]_vars

\* A call in progress goes on running: the functions are straight-line code
SpecPanicLive == InitPanicSpec /\ [][NextPanic]_vars /\ WF_vars(StepRaise)

InitMethodSpec == InitReg /\ InitPanic /\ ParkDict /\ ParkCap

SpecMethod == InitMethodSpec /\ [][NextMethod]_vars

InitFlagsSpec == InitReg /\ InitPanic /\ ParkDict /\ ParkCap

SpecFlags == InitFlagsSpec /\ [][NextFlags]_vars

----------------------------------------------------------------------------
\* Properties of the argument getters

\* C6: opt_<kind>(args, argc, n, default) returns default when n >= argc or
\* args[n] is nil, in every other case behaves exactly as get_<kind>(args, n),
\* and never reads args at an index >= argc.
C6_OptReturnsDefaultOrGets ==
    call.op \in {"opt", "optinteger"} =>
        LET argv == call.in.argv
            n == call.in.n
            expected ==
                IF n >= Len(argv) \/ janet_checktype(Arg(argv, n), "nil")
                THEN Ret(call.in.dflt)
                ELSE IF call.op = "opt"
                     THEN janet_get(call.in.kind, argv, n)
                     ELSE janet_getinteger(argv, n)
        IN  /\ ~call.oob
            /\ call.panicked = expected.panicked
            /\ call.val = expected.val

\* C7: get_arg_index returns only values in the half-open range [0, length):
\* an integer argument that resolves below 0 or to length or more raises.
C7_ArgIndexInHalfOpenRange ==
    (call.op = "getargindex" /\ ~call.panicked) =>
        (0 <= call.val /\ call.val < call.in.length)

\* A slice bound as the claim resolves it: a negative b counts from the end
ResolveBound(b, L) == IF b < 0 THEN b + L + 1 ELSE b

\* A slice bound argument that does not raise: nil, or an integer that
\* resolves into [0, L]
BoundAccepted(x, L) ==
    \/ janet_checktype(x, "nil")
    \/ /\ janet_checkint(x)
       /\ ResolveBound(janet_unwrap_integer(x), L) \in 0..L

\* C8: for a sequence of length L and 1 to 3 arguments, get_slice raises
\* exactly when a bound resolves outside [0, L] (or is no integer), and
\* otherwise returns 0 <= start <= end <= L, where a missing or nil start is 0,
\* a missing or nil end is L, a negative bound b is b + L + 1 and an end below
\* the start is clamped up to the start.
C8_SliceWithinBounds ==
    (call.op = "getslice" /\ call.in.argc \in 1..3) =>
        LET argv == call.in.argv
            argc == call.in.argc
            L == argv[1].v
            start == IF argc >= 2 /\ ~janet_checktype(argv[2], "nil")
                     THEN ResolveBound(janet_unwrap_integer(argv[2]), L) ELSE 0
            end == IF argc >= 3 /\ ~janet_checktype(argv[3], "nil")
                   THEN ResolveBound(janet_unwrap_integer(argv[3]), L) ELSE L
        IN  /\ call.panicked <=> (\E i \in 2..argc : ~BoundAccepted(argv[i], L))
            /\ ~call.panicked =>
                  /\ call.val.start = start
                  /\ call.val.end = IF end < start THEN start ELSE end
                  /\ 0 <= call.val.start
                  /\ call.val.start <= call.val.end
                  /\ call.val.end <= L

\* A slice of a non-empty sequence with start -1 and an end that resolves
\* below it: the result is the empty range at the end of the sequence.
C8_Witness ==
    /\ call.op = "getslice"
    /\ call.in.argc = 3
    /\ call.in.argv[1].v >= 1
    /\ call.in.argv[2] = janet_wrap_integer(-1)
    /\ janet_checkint(call.in.argv[3])
    /\ ~call.panicked
    /\ call.val = [start |-> call.in.argv[1].v, end |-> call.in.argv[1].v]
    /\ ResolveBound(janet_unwrap_integer(call.in.argv[3]), call.in.argv[1].v)
          < call.in.argv[1].v

----------------------------------------------------------------------------
\* Properties of the abstract type registry

\* C9 as stated: register_type fails exactly when a distinct descriptor is
\* already registered under the same name, and otherwise binds the name to a
\* fresh wrapper of the private marker type that holds the descriptor.
C9_RegisterFailsOnlyOnDistinctDescriptor ==
    call.op = "register" =>
        (call.panicked <=> (call.prev # NULL /\ call.prev # call.at))

\* C9 as amended: register_type fails exactly when the name is already bound,
\* be it to another descriptor or to the very same one; otherwise it binds the
\* name to a fresh wrapper of the private marker type that holds the descriptor.
C9_RegisterFailsOnBoundName ==
    call.op = "register" =>
        /\ call.panicked <=> call.prev # NULL
        /\ ~call.panicked =>
              LET sym == janet_csymbolv(at_name(call.at))
              IN  /\ janet_table_get(janet_vm_registry, sym) = janet_wrap_abstract(call.abstract)
                  /\ heap[call.abstract] = [type |-> TypeWrap, at |-> call.at]
                  /\ call.abstract = Len(heap)
                  /\ \A k \in DOMAIN janet_vm_registry :
                        janet_vm_registry[k] = janet_wrap_abstract(call.abstract) => k = sym
        /\ call.panicked => control \in {"handler", "exited"}

\* Registering again the descriptor that is already bound panicked.
C9_Witness ==
    /\ call.op = "register"
    /\ call.panicked
    /\ call.prev = call.at

\* C10: lookup_type(name) is absent while no registration under the name
\* has succeeded, and afterwards it is the descriptor of the first successful
\* registration under that name, whatever registrations were rejected since.
C10_LookupReturnsFirstRegistered ==
    /\ \A nm \in Names :
          janet_get_abstract_type(janet_vm_registry, janet_csymbolv(nm)) =
              [panicked |-> FALSE, val |-> firstReg[nm]]
    /\ (call.op = "lookup" /\ janet_checktype(call.key, "symbol")) =>
          (~call.panicked /\ call.val = firstReg[call.key.v])

\* A lookup returned the first descriptor after a distinct descriptor of the
\* same name was rejected.
C10_Witness ==
    /\ call.op = "lookup"
    /\ janet_checktype(call.key, "symbol")
    /\ call.val # NULL
    /\ call.val = firstReg[call.key.v]
    /\ \E at \in rejected : at_name(at) = call.key.v /\ at # call.val

----------------------------------------------------------------------------
\* Properties of the panic functions

\* The functions whose every call ends in janet_panicv
RaisingFunctions ==
    {"janet_panicv", "janet_panics", "janet_panic", "janet_panicf",
     "janet_panic_type", "janet_panic_abstract"}

\* The call in progress is bound to raise
Raising ==
    /\ call.op # "none"
    /\ \/ call.pc \in RaisingFunctions
       \/ /\ call.pc = "janet_arity"
          /\ janet_arity(call.in.arity, call.in.min, call.in.max).panicked
       \/ /\ call.pc = "janet_fixarity"
          /\ janet_fixarity(call.in.arity, call.in.fix).panicked

\* The two outcomes of a raise
Jumped ==
    /\ control = "handler"
    /\ janet_vm_return_reg # NULL
    /\ return_slot = call.raised
    /\ exit_status = NULL

Terminated ==
    /\ control = "exited"
    /\ janet_vm_return_reg = NULL
    /\ exit_status # NULL /\ exit_status # 0

\* C11: raise(value) never returns to its caller: with an active continuation
\* the value is in the return slot when control is at the jump target, so the
\* handler observes exactly the raised value; with none the process ends with
\* a non-zero status. Every raise_formatted, wrong-type, wrong-abstract-type
\* and arity failure reaches one of these two outcomes, through raise only.
C11_RaiseNeverReturns ==
    /\ [](control = "handler" =>
            /\ Jumped
            /\ call.pc = "gone"
            /\ call.op = "janet_panicv" => return_slot = call.in.value)
    /\ [](control = "exited" => Terminated /\ call.pc = "gone")
    /\ []((call.op # "none" /\ call.pc = "returned") => call.op \notin RaisingFunctions)
    /\ [][(call.op # "none" /\ call.pc = "janet_panicv") =>
            /\ call'.pc = "gone"
            /\ control' = IF janet_vm_return_reg # NULL THEN "handler" ELSE "exited"]_vars
    /\ [][(control = "normal" /\ control' # "normal") =>
            (call.op # "none" /\ call.pc = "janet_panicv")]_vars
    /\ (Raising ~> (Jumped \/ Terminated))

C11_Witness ==
    /\ Jumped
    /\ call.op = "janet_panic_abstract"
    /\ call.pc = "gone"
    /\ return_slot.type = "string"

\* C14: check_arity(actual, min, max) raises exactly when (min >= 0 and
\* actual < min) or (max >= 0 and actual > max) and returns normally
\* otherwise; a negative bound never causes a raise on its side.
C14_ArityRaisesExactlyOutsideBounds ==
    (call.op = "janet_arity" /\ call.pc # "janet_arity") =>
        LET actual == call.in.arity
            min == call.in.min
            max == call.in.max
            outside == (min >= 0 /\ actual < min) \/ (max >= 0 /\ actual > max)
        IN  /\ outside <=> call.pc # "returned"
            /\ ~outside <=> (call.pc = "returned" /\ control = "normal")

C14_Witness ==
    /\ call.op = "janet_arity"
    /\ call.in = [arity |-> 3, min |-> 1, max |-> 2]
    /\ call.pc = "gone"
    /\ control # "normal"

----------------------------------------------------------------------------
\* Properties of method lookup and flag parsing

\* C12: get_method(name, method_table) returns the native function of the
\* first table entry whose name is byte-for-byte equal to name (same length,
\* same bytes) and nil, without raising, when no entry's name is equal to
\* name, for every byte string name: with a zero byte, a proper prefix or an
\* extension of an entry name.
C12_GetMethodExactMatch ==
    call.op = "getmethod" =>
        LET method == call.in.method
            methods == call.in.methods
            equal == {i \in 1..Len(methods) : methods[i].name = method}
        IN  /\ ~call.panicked
            /\ call.val = IF equal = {} THEN janet_wrap_nil
                          ELSE janet_wrap_cfunction(methods[SetMin(equal)].cfun)

\* The index in the alphabet that a keyword character stands for: the first
\* among the significant characters of the alphabet
Significant(flags) == IF Len(flags) > FlagCap THEN FlagCap ELSE Len(flags)
FirstIndex(flags, c) == SetMin({i \in 0..(Significant(flags) - 1) : flags[i + 1] = c})
Known(flags, c) == \E i \in 0..(Significant(flags) - 1) : flags[i + 1] = c

\* C13: get_flags(args, n, alphabet) on a keyword returns the bitmask with
\* bit i set exactly when some character of the keyword equals the alphabet
\* character at index i (the first such index, among the first 64 alphabet
\* characters); a keyword character not among them raises, naming that
\* character and the alphabet, and no bitmask is returned; a non-keyword
\* argument raises wrong-type.
C13_GetFlagsBitmask ==
    call.op = "getflags" =>
        LET x == Arg(call.in.argv, call.in.n)
            flags == call.in.flags
            keyw == x.v
            unknown == {j \in 1..Len(keyw) : ~Known(flags, keyw[j])}
        IN  IF ~janet_checktype(x, "keyword")
            THEN /\ call.panicked
                 /\ control = "handler" =>
                       return_slot = janet_wrap_string(
                           <<"bad slot #%d, expected %T, got %v", call.in.n, "keyword", x>>)
            ELSE IF unknown # {}
            THEN /\ call.panicked
                 /\ call.val = NULL
                 /\ control = "handler" =>
                       /\ return_slot.type = "string"
                       /\ return_slot.v[2] \in {keyw[j] : j \in unknown}
                       /\ return_slot.v[3] = flags
            ELSE /\ ~call.panicked
                 /\ call.val = {FirstIndex(flags, keyw[j]) : j \in 1..Len(keyw)}

C13_Witness ==
    /\ call.op = "getflags"
    /\ ~call.panicked
    /\ Len(call.in.flags) > FlagCap
    /\ call.val = {0}

====
